---- MODULE Spec2Model ----
(***************************************************************************)
(* Model of the kulu ROSCA application: the loan repayment handlers        *)
(* (interest-bearing, no-interest, legacy principalPayment and ROSCA), the *)
(* group fund they update and the payouts they make on completion; cycle   *)
(* creation, the benefit estimate, the backfill of a member who joins a    *)
(* group, and the payment schedule of the loan page.                       *)
(*                                                                         *)
(* Money is an integer count of paise (0.01 rupee).  Most loans and        *)
(* payments are chosen so that principal / weeks, x * rate / 100 and       *)
(* x * 0.5 / 100 are whole paise; a quotient that is not is cut to whole   *)
(* paise, and Math.round(x * 100) / 100 rounds a fraction of a paisa to    *)
(* the nearest paisa.                                                      *)
(* Dates are day numbers.  Every await of a handler on the store is a      *)
(* separate step of the request, so requests interleave where the code's   *)
(* requests do, and a store call may throw where the code's may.           *)
(***************************************************************************)
EXTENDS Integers, Sequences, FiniteSets

\* ------------------------------------------------------------------ bounds

\* Requests received over one run.
MaxRequests == 2

\* ------------------------------------------------------------------ helpers

Max(a, b) == IF a >= b THEN a ELSE b

Min(a, b) == IF a <= b THEN a ELSE b

Rupees(n) == n * 100

\* Math.round(x * 100) / 100 of the amount num / den paise (den > 0): the
\* nearest paisa, halves rounded up.
Round2(num, den) == (2 * num + den) \div (2 * den)

\* ------------------------------------------------------------------ data

LoanIds == {"L1", "L2"}

NoLoan == "L0"

\* M3 is a member of the group who is no longer active.
Members == {"M1", "M2", "M3"}

\* Callers: no session, the administrator, and one user per member.
Users == {"anon", "admin", "u1", "u2"}

UserRole(u) == IF u = "admin" THEN "ADMIN" ELSE "USER"

\* user.userId, the member identity a user is linked to.
UserMember(u) == IF u = "u1" THEN "M1" ELSE IF u = "u2" THEN "M2" ELSE "none"

Procs == {1, 2}

NoDate == -1

Days == {0, 15}

\* The clock (new Date()) while the requests of a run arrive.
Today == CHOOSE d \in Days : \A e \in Days : d >= e

Kinds == {"interest", "nointerest", "legacy", "rosca"}

PrincipalPayments == {Rupees(100), Rupees(400)}

\* isLate and overdueWeeks of a request body.
LateChoices == { << FALSE, 0 >>, << TRUE, 2 >>, << FALSE, 2 >> }

VARIABLES
  loans,                \* Loan records by id
  loanTransactions,     \* LoanTransaction records of each loan, oldest first
  groupFund,            \* the cycle's GroupFund record
  group,                \* the cycle's Group, with its GroupMember records
  paidContributions,    \* sum of each member's CollectionPayments with status PAID
  interestDistributions,\* InterestDistribution records, oldest first
  savings,              \* Savings record of each member
  savingsTransactions,  \* SavingsTransaction records, oldest first
  pc,                   \* position of each request slot in its handler
  req,                  \* what the request in each slot parsed, read and computed from
  lastResponse,         \* the error of the response sent last ("" for none yet, "ok" for 200)
  started,              \* requests received so far
  repaid,               \* repayments of each loan that returned 200
  loanCycles,           \* LoanCycle records with their sequences and fund, oldest first
  groupMembers,         \* GroupMember records of the group members are added to
  weeklyCollections,    \* WeeklyCollection records by cycle and week
  collectionPayments,   \* CollectionPayment records
  paymentSchedule       \* the schedule the loan page shows

vars == << loans, loanTransactions, groupFund, group, paidContributions,
           interestDistributions,
           savings, savingsTransactions, pc, req, lastResponse, started, repaid,
           loanCycles, groupMembers, weeklyCollections, collectionPayments,
           paymentSchedule >>

\* What the repayment handlers neither read nor write.
elsewhere == << loanCycles, groupMembers, weeklyCollections, collectionPayments,
                paymentSchedule >>

store == << loans, loanTransactions, groupFund, group, paidContributions,
            interestDistributions,
            savings, savingsTransactions >>

\* prisma.loan.create of POST /api/loans: remaining = principal, currentWeek 0,
\* and the schema's defaults for the totals and the status.
NewLoan(member, principal, weeks, interestRate, inCycle, disbursedAt) ==
  [ memberId |-> member, principal |-> principal, remaining |-> principal,
    weeks |-> weeks, interestRate |-> interestRate, currentWeek |-> 0,
    totalInterest |-> 0, totalPrincipalPaid |-> 0, latePaymentPenalty |-> 0,
    totalPenalty |-> 0, status |-> "ACTIVE", completedAt |-> NoDate,
    disbursedAt |-> disbursedAt, inCycle |-> inCycle ]

\* groupFund create of the cycle: all pools zeroed.
NewGroupFund ==
  [ investmentPool |-> 0, interestPool |-> 0, emergencyReserve |-> 0,
    insuranceFund |-> 0, adminFee |-> 0, totalFunds |-> 0 ]

NoRequest ==
  [ kind |-> "none", loanId |-> NoLoan, paymentDate |-> NoDate,
    isLate |-> FALSE, overdueWeeks |-> 0, principalPayment |-> 0,
    isFullRepayment |-> FALSE, loan |-> NewLoan("none", 0, 1, 0, FALSE, NoDate),
    groupFund |-> NewGroupFund, hasGroup |-> FALSE, members |-> << >>,
    totalContributed |-> 0, todo |-> {}, found |-> << >>, failed |-> FALSE,
    created |-> 0 ]

\* GroupMember.totalContributed of the group's members.
Contributed ==
  [ m \in Members |-> IF m = "M1" THEN Rupees(30)
                      ELSE IF m = "M2" THEN Rupees(10) ELSE Rupees(20) ]

\* A group nobody has contributed to yet.
NothingContributed == [ m \in Members |-> 0 ]

\* The first loan, of M1.
FirstLoan == NewLoan("M1", Rupees(600), 2, 2, TRUE, 0)

\* The second loan, of M2: over some weeks, in the cycle or not.
SecondLoan(weeks, inCycle) ==
  NewLoan("M2", Rupees(300), weeks, 1, inCycle, IF inCycle THEN 0 ELSE NoDate)

\* Two loans as POST /api/loans creates them and a group whose members have
\* contributed so far.
InitLedger(first, second, contributed) ==
  /\ loans = [ l \in LoanIds |-> IF l = "L1" THEN first ELSE second ]
  /\ loanTransactions = [ l \in LoanIds |-> << >> ]
  /\ groupFund = NewGroupFund
  /\ group = [ penaltyLoanPercent |-> 10, penaltyInterestPercent |-> 10,
               weeklyAmount |-> Rupees(100),
               members |-> [ m \in Members |->
                 [ isActive |-> m # "M3",
                   totalContributed |-> contributed[m],
                   totalInterestReceived |-> 0 ] ] ]
  /\ paidContributions = [ m \in Members |->
                            IF m = "M1" THEN Rupees(30)
                            ELSE IF m = "M2" THEN Rupees(10) ELSE 0 ]
  /\ interestDistributions = << >>
  /\ savings = [ m \in Members |-> [ exists |-> FALSE, totalAmount |-> 0 ] ]
  /\ savingsTransactions = << >>
  /\ pc = [ p \in Procs |-> "idle" ]
  /\ req = [ p \in Procs |-> NoRequest ]
  /\ lastResponse = ""
  /\ started = 0
  /\ repaid = [ l \in LoanIds |-> 0 ]

\* No cycle, group member, collection or payment yet, no schedule shown.
NothingElsewhere ==
  /\ loanCycles = << >>
  /\ groupMembers = << >>
  /\ weeklyCollections = << >>
  /\ collectionPayments = {}
  /\ paymentSchedule = << >>

Init ==
  /\ NothingElsewhere
  /\ \E secondInCycle \in BOOLEAN :
       InitLedger(FirstLoan, SecondLoan(3, secondInCycle), Contributed)

\* ------------------------------------------------------------------ lib/utils

\* calculateWeeklyPayment(remainingBalance, principalPayment, interestRate):
\* principal only, the new balance clamped at 0.
calculateWeeklyPayment(remainingBalance, principalPayment, interestRate) ==
  [ principal |-> principalPayment, interest |-> 0, total |-> principalPayment,
    newBalance |-> Max(0, remainingBalance - principalPayment) ]

\* calculateGroupFundAllocation(interestPool) with its default percentages
\* 10, 5 and 0.5.
calculateGroupFundAllocation(interestPool) ==
  LET emergencyReserve == Round2(interestPool * 10, 100)
      insuranceFund == Round2(interestPool * 5, 100)
      adminFee == Round2(interestPool * 5, 1000)
  IN [ emergencyReserve |-> emergencyReserve, insuranceFund |-> insuranceFund,
       adminFee |-> adminFee,
       distributable |->
         Round2(interestPool - emergencyReserve - insuranceFund - adminFee, 1) ]

\* ------------------------------------------------------------------ what a repayment computes
\* r is a request: its parsed body and the loan (with cycle, fund and group
\* members) its findUnique returned.

disbursedDate(r) ==
  IF r.loan.disbursedAt # NoDate THEN r.loan.disbursedAt ELSE Today

paymentDate(r) == IF r.paymentDate # NoDate THEN r.paymentDate ELSE Today

weeksSinceDisbursal(r) == (paymentDate(r) - disbursedDate(r)) \div 7

expectedWeek(r) == weeksSinceDisbursal(r) + 1

missedWeeks(r) ==
  IF r.kind = "interest"
  THEN Max(0, expectedWeek(r) - r.loan.currentWeek - 1)
  ELSE 0

\* loan.principal / loan.weeks.  A quotient that is not exact is rounded to a
\* representable number, here to the paisa below: 500 / 3 is the double
\* 166.66666666666666, and three of them subtracted from 500 leave
\* 5.7e-14, as 16666 paise taken three times from 50000 leave 2.
weeklyPrincipal(r) == r.loan.principal \div r.loan.weeks

weeklyInterest(r) ==
  IF r.kind \in {"interest", "rosca"}
  THEN (r.loan.remaining * r.loan.interestRate) \div 100
  ELSE 0

\* The loop over the missed weeks: tempRemaining is never reduced.
RECURSIVE accumulatedInterestLoop(_, _, _)
accumulatedInterestLoop(tempRemaining, interestRate, i) ==
  IF i <= 0 THEN 0
  ELSE (tempRemaining * interestRate) \div 100
       + accumulatedInterestLoop(tempRemaining, interestRate, i - 1)

RECURSIVE accumulatedPenaltyLoop(_, _)
accumulatedPenaltyLoop(tempRemaining, i) ==
  IF i <= 0 THEN 0
  ELSE (tempRemaining * 5) \div 1000 + accumulatedPenaltyLoop(tempRemaining, i - 1)

accumulatedInterest(r) ==
  IF r.kind = "interest"
  THEN accumulatedInterestLoop(r.loan.remaining, r.loan.interestRate, missedWeeks(r))
  ELSE 0

\* accumulatedPenalty when the missed weeks cost one week's penalty together.
accumulatedPenalty_OneWeek(r) ==
  IF r.kind = "interest" /\ missedWeeks(r) > 0
  THEN (r.loan.remaining * 5) \div 1000
  ELSE 0

accumulatedPenalty(r) ==
  IF r.kind = "interest"
  THEN accumulatedPenaltyLoop(r.loan.remaining, missedWeeks(r))
  ELSE 0

\* ROSCA full repayment: interest over the whole term and the group's penalties.
roscaTotalInterest(r) ==
  (r.loan.principal * r.loan.interestRate * r.loan.weeks) \div 100

roscaLoanPenalty(r) == (r.loan.principal * group.penaltyLoanPercent) \div 100

roscaInterestPenalty(r) ==
  (roscaTotalInterest(r) * group.penaltyInterestPercent) \div 100

roscaTotalPenalty(r) == roscaLoanPenalty(r) + roscaInterestPenalty(r)

IsFull(r) == r.kind = "rosca" /\ r.isFullRepayment

\* payment.principal
paymentPrincipal(r) ==
  IF r.kind = "legacy" THEN r.principalPayment
  ELSE IF IsFull(r) THEN r.loan.principal
  ELSE weeklyPrincipal(r)

\* payment.interest
paymentInterest(r) ==
  IF IsFull(r) THEN roscaTotalInterest(r)
  ELSE weeklyInterest(r) + accumulatedInterest(r)

\* latePenalty when the manual penalty is added to the simulated one.
latePenalty_Added(r) ==
  IF r.kind = "interest"
  THEN IF r.isLate /\ r.overdueWeeks > 0 /\ r.overdueWeeks # missedWeeks(r)
       THEN accumulatedPenalty(r) + (r.loan.remaining * 5 * r.overdueWeeks) \div 1000
       ELSE accumulatedPenalty(r)
  ELSE IF r.kind = "legacy"
  THEN IF r.isLate /\ r.overdueWeeks > 0
       THEN (r.loan.remaining * 5 * r.overdueWeeks) \div 1000
       ELSE 0
  ELSE 0

latePenalty(r) ==
  IF r.kind = "interest"
  THEN IF r.isLate /\ r.overdueWeeks > 0 /\ r.overdueWeeks # missedWeeks(r)
       THEN (r.loan.remaining * 5 * r.overdueWeeks) \div 1000
       ELSE accumulatedPenalty(r)
  ELSE IF r.kind = "legacy"
  THEN IF r.isLate /\ r.overdueWeeks > 0
       THEN (r.loan.remaining * 5 * r.overdueWeeks) \div 1000
       ELSE 0
  ELSE 0

newRemaining(r) ==
  IF r.kind = "legacy"
  THEN calculateWeeklyPayment(r.loan.remaining, r.principalPayment,
                              r.loan.interestRate).newBalance
  ELSE IF r.kind = "rosca"
  THEN IF r.isFullRepayment THEN 0 ELSE r.loan.remaining - weeklyPrincipal(r)
  ELSE Max(0, r.loan.remaining - weeklyPrincipal(r))

\* newWeek when the missed weeks are not counted.
newWeek_OneStep(r) ==
  IF IsFull(r) THEN r.loan.weeks ELSE r.loan.currentWeek + 1

newWeek(r) ==
  IF IsFull(r) THEN r.loan.weeks
  ELSE r.loan.currentWeek + 1 + missedWeeks(r)

newStatus(r) ==
  IF IsFull(r) THEN "COMPLETED"
  ELSE IF newRemaining(r) <= 0 THEN "COMPLETED" ELSE "ACTIVE"

\* completedAt: the payment date, or the clock in the legacy and the partial
\* ROSCA repayment.
newCompletedAt(r) ==
  IF IsFull(r) THEN r.paymentDate
  ELSE IF newRemaining(r) <= 0
  THEN IF r.kind \in {"legacy", "rosca"} THEN Today ELSE paymentDate(r)
  ELSE NoDate

\* updatedLoan.status === "COMPLETED"
Completes(r) == newStatus(r) = "COMPLETED"

\* The data of prisma.loan.update, applied to the stored record.
LoanUpdate(r, stored) ==
  IF IsFull(r)
  THEN [ stored EXCEPT !.remaining = newRemaining(r), !.currentWeek = newWeek(r),
           !.totalInterest = roscaTotalInterest(r),
           !.totalPrincipalPaid = r.loan.principal,
           !.totalPenalty = roscaTotalPenalty(r),
           !.status = newStatus(r), !.completedAt = newCompletedAt(r) ]
  ELSE IF r.kind = "nointerest"
  THEN [ stored EXCEPT !.remaining = newRemaining(r), !.currentWeek = newWeek(r),
           !.totalPrincipalPaid = r.loan.totalPrincipalPaid + paymentPrincipal(r),
           !.status = newStatus(r), !.completedAt = newCompletedAt(r) ]
  ELSE IF r.kind = "rosca"
  THEN [ stored EXCEPT !.remaining = newRemaining(r), !.currentWeek = newWeek(r),
           !.totalInterest = r.loan.totalInterest + paymentInterest(r),
           !.totalPrincipalPaid = r.loan.totalPrincipalPaid + paymentPrincipal(r),
           !.status = newStatus(r), !.completedAt = newCompletedAt(r) ]
  ELSE [ stored EXCEPT !.remaining = newRemaining(r), !.currentWeek = newWeek(r),
           !.totalInterest = r.loan.totalInterest + paymentInterest(r),
           !.totalPrincipalPaid = r.loan.totalPrincipalPaid + paymentPrincipal(r),
           !.status = newStatus(r), !.completedAt = newCompletedAt(r),
           !.latePaymentPenalty = r.loan.latePaymentPenalty + latePenalty(r) ]

\* The data of prisma.loanTransaction.create.  The no-interest handler leaves
\* interest and penalty to their defaults; the legacy one folds the penalty
\* into the interest.
Transaction(r) ==
  [ date |-> paymentDate(r), amount |-> paymentPrincipal(r),
    interest |-> IF r.kind = "nointerest" THEN 0
                 ELSE IF r.kind = "legacy" THEN paymentInterest(r) + latePenalty(r)
                 ELSE paymentInterest(r),
    penalty |-> IF IsFull(r) THEN roscaTotalPenalty(r)
                ELSE IF r.kind = "interest" THEN latePenalty(r) ELSE 0,
    remaining |-> newRemaining(r), week |-> newWeek(r) ]

\* newInterestPool of the interest-bearing and the legacy handler, from the
\* fund as the request read it.
newInterestPool(r) ==
  r.groupFund.interestPool + paymentInterest(r) + latePenalty(r)

\* The data of prisma.groupFund.update, applied to the stored record.
FundUpdate(r, stored) ==
  IF r.kind \in {"interest", "legacy"}
  THEN LET allocations == calculateGroupFundAllocation(newInterestPool(r))
       IN [ stored EXCEPT !.interestPool = newInterestPool(r),
              !.emergencyReserve = allocations.emergencyReserve,
              !.insuranceFund = allocations.insuranceFund,
              !.adminFee = allocations.adminFee,
              !.totalFunds = r.groupFund.investmentPool + newInterestPool(r)
                             - allocations.emergencyReserve
                             - allocations.insuranceFund - allocations.adminFee ]
  ELSE IF r.kind = "nointerest"
  THEN IF Completes(r)
       THEN [ stored EXCEPT !.investmentPool = 0, !.totalFunds = 0 ]
       ELSE [ stored EXCEPT !.investmentPool = @ + paymentPrincipal(r),
                            !.totalFunds = @ + paymentPrincipal(r) ]
  ELSE [ stored EXCEPT !.investmentPool = @ + paymentPrincipal(r),
                       !.interestPool = @ + paymentInterest(r),
                       !.totalFunds = @ + paymentPrincipal(r) + paymentInterest(r) ]

RECURSIVE SumOver(_, _)
SumOver(f, S) ==
  IF S = {} THEN 0
  ELSE LET x == CHOOSE y \in S : TRUE IN f[x] + SumOver(f, S \ {x})

\* updatedLoan.totalInterest of the interest-bearing handler.
updatedTotalInterest(r) == r.loan.totalInterest + paymentInterest(r)

\* updatedLoan.totalPrincipalPaid of the no-interest handler.
totalPrincipalCollected(r) == r.loan.totalPrincipalPaid + paymentPrincipal(r)

\* totalContributions of the interest-bearing handler: over the active group
\* members the request read.
totalContributions(r) == SumOver(r.members, DOMAIN r.members)

\* interestAmount when every member gets the same share.
interestAmount_EqualSplit(r, m) ==
  updatedTotalInterest(r) \div Cardinality(DOMAIN r.members)

\* One member's InterestDistribution amount.
interestAmount(r, m) ==
  (updatedTotalInterest(r) * r.members[m]) \div totalContributions(r)

\* membersToDistribute of the no-interest handler: the group's members when
\* the loan has a group with members, else every member with savings or
\* collection payments.
membersToDistribute(r) ==
  IF r.hasGroup /\ DOMAIN r.members # {}
  THEN DOMAIN r.members
  ELSE { m \in Members : savings[m].exists \/ paidContributions[m] > 0 }

\* One member's savings amount.
savingsAmount(r, m) ==
  (totalPrincipalCollected(r) * paidContributions[m]) \div r.totalContributed

\* ------------------------------------------------------------------ requests

\* Rejection without the guard on a COMPLETED loan.
Rejection_NoCompletedGuard(data, u) ==
  IF u = "anon" THEN "Unauthorized"
  ELSE IF data.kind \in {"legacy", "rosca"} /\ data.paymentDate = NoDate
  THEN "Invalid input"
  ELSE IF data.loanId \notin LoanIds THEN "Loan not found"
  ELSE IF /\ data.kind # "legacy"
          /\ UserRole(u) # "ADMIN"
          /\ (UserMember(u) = "none" \/ UserMember(u) # loans[data.loanId].memberId)
       THEN "Forbidden"
  ELSE IF data.kind = "rosca" /\ ~loans[data.loanId].inCycle
  THEN "Group not found for this loan"
  ELSE ""

\* The error the handler answers before it writes anything, "" when it goes
\* on: no session, a body the schema refuses, no such loan, a caller who is
\* neither ADMIN nor the loan's member (not checked by the legacy handler),
\* a COMPLETED loan, and for ROSCA a loan whose cycle has no group.
Rejection(data, u) ==
  IF u = "anon" THEN "Unauthorized"
  ELSE IF data.kind \in {"legacy", "rosca"} /\ data.paymentDate = NoDate
  THEN "Invalid input"
  ELSE IF data.loanId \notin LoanIds THEN "Loan not found"
  ELSE IF /\ data.kind # "legacy"
          /\ UserRole(u) # "ADMIN"
          /\ (UserMember(u) = "none" \/ UserMember(u) # loans[data.loanId].memberId)
       THEN "Forbidden"
  ELSE IF loans[data.loanId].status = "COMPLETED" THEN "Loan already completed"
  ELSE IF data.kind = "rosca" /\ ~loans[data.loanId].inCycle
  THEN "Group not found for this loan"
  ELSE ""

\* The loan as findUnique returns it, with its cycle's fund and the active
\* members of the cycle's group.
Snapshot(data) ==
  LET loan == loans[data.loanId]
      hasGroup == loan.inCycle
      active == { m \in Members : group.members[m].isActive }
  IN [ data EXCEPT !.paymentDate = paymentDate(data), !.loan = loan,
         !.groupFund = groupFund, !.hasGroup = hasGroup,
         !.members = IF hasGroup
                     THEN [ m \in active |-> group.members[m].totalContributed ]
                     ELSE << >> ]

Finish(p, response) ==
  /\ pc' = [pc EXCEPT ![p] = "idle"]
  /\ lastResponse' = response
  /\ repaid' = IF response = "ok"
               THEN [repaid EXCEPT ![req[p].loanId] = @ + 1]
               ELSE repaid
  /\ req' = [req EXCEPT ![p] = NoRequest]

\* Go on to the next store call of the handler, or answer 200.
Goto(p, next, r) ==
  IF next = "done"
  THEN Finish(p, "ok")
  ELSE /\ pc' = [pc EXCEPT ![p] = next]
       /\ req' = [req EXCEPT ![p] = r]
       /\ UNCHANGED << lastResponse, repaid >>

\* Requests take the lowest free slot.
FreeSlot(p) == pc[p] = "idle" /\ \A q \in Procs : pc[q] = "idle" => p <= q

\* Authentication, parsing, the loan read and the guards of one handler.
Accept(p, data, u) ==
  /\ UNCHANGED elsewhere
  /\ FreeSlot(p)
  /\ started' = started + 1
  /\ UNCHANGED << store, repaid >>
  /\ IF Rejection(data, u) # ""
     THEN /\ lastResponse' = Rejection(data, u)
          /\ UNCHANGED << pc, req >>
     ELSE /\ pc' = [pc EXCEPT ![p] = "updateLoan"]
          /\ req' = [req EXCEPT ![p] = Snapshot(data)]
          /\ UNCHANGED lastResponse

\* One of the requests the model follows.
Receive(p, data, u) == started < MaxRequests /\ Accept(p, data, u)

Targets == LoanIds \cup {NoLoan}

\* POST /api/loans/repay, interest-bearing.
RepayInterest(p) ==
  \E u \in Users, l \in Targets, d \in Days \cup {NoDate}, late \in LateChoices :
    Receive(p, [ NoRequest EXCEPT !.kind = "interest", !.loanId = l,
                   !.paymentDate = d, !.isLate = late[1],
                   !.overdueWeeks = late[2] ], u)

\* POST /api/loans/repay, no interest.
RepayNoInterest(p) ==
  \E u \in Users, l \in Targets, d \in {Today, NoDate} :
    Receive(p, [ NoRequest EXCEPT !.kind = "nointerest", !.loanId = l,
                   !.paymentDate = d ], u)

\* POST /api/loans/repay, legacy, with a principalPayment of the caller's.
RepayLegacy(p) ==
  \E u \in Users, l \in Targets, d \in {Today, NoDate}, late \in LateChoices,
     pp \in PrincipalPayments :
    Receive(p, [ NoRequest EXCEPT !.kind = "legacy", !.loanId = l,
                   !.paymentDate = d, !.isLate = late[1],
                   !.overdueWeeks = late[2], !.principalPayment = pp ], u)

\* POST /api/loans/repay-rosca.
RepayRosca(p) ==
  \E u \in Users, l \in Targets, d \in {Today, NoDate}, full \in BOOLEAN :
    Receive(p, [ NoRequest EXCEPT !.kind = "rosca", !.loanId = l,
                   !.paymentDate = d, !.isFullRepayment = full ], u)

\* Where the handler goes after loanTransaction.create.
AfterTransaction(r) ==
  IF r.kind = "nointerest" /\ Completes(r)
  THEN LET total == SumOver(paidContributions, membersToDistribute(r))
       IN IF total > 0 /\ totalPrincipalCollected(r) > 0
          THEN "distribute"
          ELSE IF r.loan.inCycle THEN "updateGroupFund" ELSE "done"
  ELSE IF r.loan.inCycle THEN "updateGroupFund" ELSE "done"

\* Where the handler goes after groupFund.update.
AfterGroupFund(r) ==
  IF /\ r.kind = "interest"
     /\ Completes(r)
     /\ r.hasGroup
     /\ totalContributions(r) > 0
     /\ updatedTotalInterest(r) > 0
     /\ DOMAIN r.members # {}
  THEN "distribute"
  ELSE "done"

\* Where the handler goes after Promise.all of the payouts.
AfterDistribute(r) ==
  IF r.kind = "nointerest" /\ r.loan.inCycle THEN "updateGroupFund" ELSE "done"

\* prisma.loan.update
UpdateLoan(p) ==
  /\ UNCHANGED elsewhere
  /\ pc[p] = "updateLoan"
  /\ loans' = [loans EXCEPT ![req[p].loanId] = LoanUpdate(req[p], @)]
  /\ pc' = [pc EXCEPT ![p] = "createTransaction"]
  /\ UNCHANGED << loanTransactions, groupFund, group, paidContributions,
                  interestDistributions, savings, savingsTransactions,
                  req, lastResponse, started, repaid >>

\* CreatedTransaction when the handler forgets the record.
CreatedTransaction_Skipped(log, r) == log

\* The loan's transactions after prisma.loanTransaction.create.
CreatedTransaction(log, r) == Append(log, Transaction(r))

\* prisma.loanTransaction.create; created counts the records the request has
\* added.
CreateTransaction(p) ==
  /\ UNCHANGED elsewhere
  /\ pc[p] = "createTransaction"
  /\ loanTransactions' =
       [loanTransactions EXCEPT ![req[p].loanId] = CreatedTransaction(@, req[p])]
  /\ LET next == AfterTransaction(req[p])
         r == [ req[p] EXCEPT !.created =
                  @ + Len(loanTransactions'[req[p].loanId])
                    - Len(loanTransactions[req[p].loanId]) ]
     IN Goto(p, next,
             IF next = "distribute"
             THEN [ r EXCEPT
                      !.todo = membersToDistribute(r),
                      !.totalContributed =
                        SumOver(paidContributions, membersToDistribute(r)) ]
             ELSE r)
  /\ UNCHANGED << loans, groupFund, group, paidContributions,
                  interestDistributions, savings, savingsTransactions, started >>

\* prisma.groupFund.update
UpdateGroupFund(p) ==
  /\ UNCHANGED elsewhere
  /\ pc[p] = "updateGroupFund"
  /\ groupFund' = FundUpdate(req[p], groupFund)
  /\ LET next == AfterGroupFund(req[p])
     IN Goto(p, next,
             IF next = "distribute"
             THEN [ req[p] EXCEPT !.todo = DOMAIN req[p].members ]
             ELSE req[p])
  /\ UNCHANGED << loans, loanTransactions, group, paidContributions,
                  interestDistributions, savings, savingsTransactions, started >>

\* The request once member m's payout has settled: the next store call when
\* it was the last one, and 500 when any of them threw.
Settled(p, m, threw) ==
  LET r == [ req[p] EXCEPT !.todo = @ \ {m}, !.failed = @ \/ threw ]
  IN IF r.todo # {}
     THEN /\ req' = [req EXCEPT ![p] = r]
          /\ UNCHANGED << pc, lastResponse, repaid >>
     ELSE IF r.failed
     THEN Finish(p, "Failed to process repayment")
     ELSE Goto(p, AfterDistribute(r), r)

\* prisma.savings.findFirst of one member's payout in the no-interest
\* handler, with savings.create when the member has no record: the request
\* keeps the totalAmount it read.
FindSavings(p, m) ==
  /\ UNCHANGED elsewhere
  /\ pc[p] = "distribute"
  /\ req[p].kind = "nointerest"
  /\ m \in req[p].todo
  /\ m \notin DOMAIN req[p].found
  /\ savingsAmount(req[p], m) > 0
  /\ savings' = [savings EXCEPT ![m].exists = TRUE]
  /\ req' = [req EXCEPT ![p].found =
               [ x \in DOMAIN @ \cup {m} |->
                   IF x = m THEN savings[m].totalAmount ELSE @[x] ]]
  /\ UNCHANGED << loans, loanTransactions, groupFund, group, paidContributions,
                  interestDistributions, savingsTransactions,
                  pc, lastResponse, started, repaid >>

\* One member's payout: an InterestDistribution and the member's
\* totalInterestReceived, or a SavingsTransaction and the member's Savings
\* set to the total the request read plus the amount.
Distribute(p, m) ==
  /\ UNCHANGED elsewhere
  /\ pc[p] = "distribute"
  /\ m \in req[p].todo
  /\ (req[p].kind = "nointerest" /\ savingsAmount(req[p], m) > 0)
       => m \in DOMAIN req[p].found
  /\ IF req[p].kind = "interest"
     THEN /\ interestDistributions' =
               Append(interestDistributions,
                      [ loanId |-> req[p].loanId, groupMemberId |-> m,
                        amount |-> interestAmount(req[p], m),
                        distributionDate |-> paymentDate(req[p]) ])
          /\ group' = [group EXCEPT !.members[m].totalInterestReceived =
                                      @ + interestAmount(req[p], m)]
          /\ UNCHANGED << savings, savingsTransactions >>
     ELSE /\ IF savingsAmount(req[p], m) > 0
             THEN LET newTotal == req[p].found[m] + savingsAmount(req[p], m)
                  IN /\ savingsTransactions' =
                          Append(savingsTransactions,
                                 [ memberId |-> m, date |-> paymentDate(req[p]),
                                   amount |-> savingsAmount(req[p], m),
                                   total |-> newTotal ])
                     /\ savings' = [savings EXCEPT ![m] =
                                      [ exists |-> TRUE, totalAmount |-> newTotal ]]
             ELSE UNCHANGED << savings, savingsTransactions >>
          /\ UNCHANGED << interestDistributions, group >>
  /\ Settled(p, m, FALSE)
  /\ UNCHANGED << loans, loanTransactions, groupFund, paidContributions, started >>

\* A store call of the handler throws: the catch block answers 500 and
\* nothing already written is undone.
StoreThrows(p) ==
  /\ UNCHANGED elsewhere
  /\ pc[p] \in {"updateLoan", "createTransaction", "updateGroupFund"}
  /\ Finish(p, "Failed to process repayment")
  /\ UNCHANGED << store, started >>

\* A store call of one member's payout throws.
DistributeThrows(p, m) ==
  /\ UNCHANGED elsewhere
  /\ pc[p] = "distribute"
  /\ m \in req[p].todo
  /\ Settled(p, m, TRUE)
  /\ UNCHANGED << store, started >>

\* PUT /api/loans/[id] with status DEFAULTED, which the loan page sends for
\* an ACTIVE loan.
MarkDefaulted(l) ==
  /\ UNCHANGED elsewhere
  /\ started < MaxRequests
  /\ loans[l].status = "ACTIVE"
  /\ loans' = [loans EXCEPT ![l].status = "DEFAULTED"]
  /\ started' = started + 1
  /\ UNCHANGED << loanTransactions, groupFund, group, paidContributions,
                  interestDistributions, savings, savingsTransactions,
                  pc, req, lastResponse, repaid >>

Next ==
  \/ \E p \in Procs : RepayInterest(p)
  \/ \E p \in Procs : RepayNoInterest(p)
  \/ \E p \in Procs : RepayLegacy(p)
  \/ \E p \in Procs : RepayRosca(p)
  \/ \E p \in Procs : UpdateLoan(p)
  \/ \E p \in Procs : CreateTransaction(p)
  \/ \E p \in Procs : UpdateGroupFund(p)
  \/ \E p \in Procs, m \in Members : FindSavings(p, m)
  \/ \E p \in Procs, m \in Members : Distribute(p, m)
  \/ \E p \in Procs : StoreThrows(p)
  \/ \E p \in Procs, m \in Members : DistributeThrows(p, m)
  \/ \E l \in LoanIds : MarkDefaulted(l)

Spec == Init /\ [][Next]_vars

\* The four handlers when no store call throws.
NextNoThrow ==
  \/ \E p \in Procs : RepayInterest(p)
  \/ \E p \in Procs : RepayNoInterest(p)
  \/ \E p \in Procs : RepayLegacy(p)
  \/ \E p \in Procs : RepayRosca(p)
  \/ \E p \in Procs : UpdateLoan(p)
  \/ \E p \in Procs : CreateTransaction(p)
  \/ \E p \in Procs : UpdateGroupFund(p)
  \/ \E p \in Procs, m \in Members : FindSavings(p, m)
  \/ \E p \in Procs, m \in Members : Distribute(p, m)

SpecNoThrow == Init /\ [][NextNoThrow]_vars

\* The interest-bearing handler alone, on a group that has contributed or
\* has not.
InitInterest ==
  /\ NothingElsewhere
  /\ \E contributed \in {Contributed, NothingContributed} :
       InitLedger(FirstLoan, SecondLoan(3, TRUE), contributed)

NextInterest ==
  \/ \E p \in Procs : RepayInterest(p)
  \/ \E p \in Procs : UpdateLoan(p)
  \/ \E p \in Procs : CreateTransaction(p)
  \/ \E p \in Procs : UpdateGroupFund(p)
  \/ \E p \in Procs, m \in Members : Distribute(p, m)
  \/ \E p \in Procs : StoreThrows(p)
  \/ \E p \in Procs, m \in Members : DistributeThrows(p, m)

SpecInterest == InitInterest /\ [][NextInterest]_vars

\* The no-interest handler alone; the second loan is due in one payment or
\* in three.
InitNoInterest ==
  /\ NothingElsewhere
  /\ \E weeks \in {1, 3}, inCycle \in BOOLEAN :
       InitLedger(FirstLoan, SecondLoan(weeks, inCycle), Contributed)

NextNoInterest ==
  \/ \E p \in Procs : RepayNoInterest(p)
  \/ \E p \in Procs : UpdateLoan(p)
  \/ \E p \in Procs : CreateTransaction(p)
  \/ \E p \in Procs : UpdateGroupFund(p)
  \/ \E p \in Procs, m \in Members : FindSavings(p, m)
  \/ \E p \in Procs, m \in Members : Distribute(p, m)
  \/ \E p \in Procs : StoreThrows(p)
  \/ \E p \in Procs, m \in Members : DistributeThrows(p, m)

SpecNoInterest == InitNoInterest /\ [][NextNoInterest]_vars

\* The interest-bearing and the no-interest handler on a second loan due in
\* one payment, so that one repayment completes it.
InitPayout ==
  /\ NothingElsewhere
  /\ InitLedger(FirstLoan, SecondLoan(1, TRUE), Contributed)

NextPayout ==
  \/ \E p \in Procs : RepayInterest(p)
  \/ \E p \in Procs : RepayNoInterest(p)
  \/ \E p \in Procs : UpdateLoan(p)
  \/ \E p \in Procs : CreateTransaction(p)
  \/ \E p \in Procs : UpdateGroupFund(p)
  \/ \E p \in Procs, m \in Members : FindSavings(p, m)
  \/ \E p \in Procs, m \in Members : Distribute(p, m)

SpecPayout == InitPayout /\ [][NextPayout]_vars

\* ------------------------------------------------------------------ a loan's life
\* Repayments sent one after the other by the administrator, each on time or
\* two weeks late, until the loans are retired.

MaxRepayments == 15

\* Repayments may be late while the loan's currentWeek is below this.
MaxLateWeek == 2

\* 1000.00 over 10 weeks at 1 % a week, and 500.00 over 3 weeks.
InitLife ==
  /\ NothingElsewhere
  /\ InitLedger(NewLoan("M1", Rupees(1000), 10, 1, TRUE, 0),
                NewLoan("M2", Rupees(500), 3, 1, TRUE, 0), Contributed)

\* The next repayment of a loan, sent when the one before has been answered:
\* in the week after the loan's currentWeek, or weeksLate weeks after it.
RepayInTurn(kind) ==
  /\ \A q \in Procs : pc[q] = "idle"
  /\ started < MaxRepayments
  /\ \E l \in LoanIds, weeksLate \in {0, 2} :
       /\ weeksLate > 0 => loans[l].currentWeek < MaxLateWeek
       /\ Accept(1, [ NoRequest EXCEPT !.kind = kind, !.loanId = l,
                       !.paymentDate = 7 * (loans[l].currentWeek + weeksLate) ],
                 "admin")

\* The next ROSCA repayment of a loan, weekly or in full, sent when the one
\* before has been answered.
RoscaInTurn ==
  /\ \A q \in Procs : pc[q] = "idle"
  /\ started < MaxRepayments
  /\ \E l \in LoanIds, full \in BOOLEAN :
       Accept(1, [ NoRequest EXCEPT !.kind = "rosca", !.loanId = l,
                     !.paymentDate = Today, !.isFullRepayment = full ], "admin")

NextRosca ==
  \/ RoscaInTurn
  \/ \E p \in Procs : UpdateLoan(p)
  \/ \E p \in Procs : CreateTransaction(p)
  \/ \E p \in Procs : UpdateGroupFund(p)

SpecRosca == Init /\ [][NextRosca]_vars

NextLifeNoInterest ==
  \/ RepayInTurn("nointerest")
  \/ \E p \in Procs : UpdateLoan(p)
  \/ \E p \in Procs : CreateTransaction(p)
  \/ \E p \in Procs : UpdateGroupFund(p)
  \/ \E p \in Procs, m \in Members : FindSavings(p, m)
  \/ \E p \in Procs, m \in Members : Distribute(p, m)

SpecLifeNoInterest == InitLife /\ [][NextLifeNoInterest]_vars

NextLifeInterest ==
  \/ RepayInTurn("interest")
  \/ \E p \in Procs : UpdateLoan(p)
  \/ \E p \in Procs : CreateTransaction(p)
  \/ \E p \in Procs : UpdateGroupFund(p)
  \/ \E p \in Procs, m \in Members : Distribute(p, m)

SpecLifeInterest == InitLife /\ [][NextLifeInterest]_vars

\* ------------------------------------------------------------------ cycles
\* POST create cycle of src/app/api/loans/calculate-benefit/route.ts.

CycleNumbers == {1, 2}

\* memberIds of the body; the schema refuses an empty list.
MemberOrders ==
  { << >>, << "M1" >>, << "M1", "M2" >>, << "M2", "M1" >>, << "M2", "M3", "M1" >> }

\* totalMembers of the body, 10 by default.
TotalMembers == {3, 10}

\* calculateLoanAmount(totalMembers, weeklyAmount)
calculateLoanAmount(totalMembers, weeklyAmount) == totalMembers * weeklyAmount

\* week of the sequence at a 0-based index that counts from 1.
sequenceWeek_FromZero(index) == index

\* week of the sequence at a 0-based index of memberIds.
sequenceWeek(index) == index + 1

\* The data of prisma.loanCycle.create: the sequences in the order of
\* memberIds and one fund with its pools at 0.
NewCycle(data) ==
  LET loanAmount == calculateLoanAmount(data.totalMembers, data.weeklyAmount)
  IN [ cycleNumber |-> data.cycleNumber, totalMembers |-> data.totalMembers,
       weeklyAmount |-> data.weeklyAmount,
       sequences |-> [ i \in 1..Len(data.memberIds) |->
                        [ memberId |-> data.memberIds[i],
                          week |-> sequenceWeek(i - 1),
                          loanAmount |-> loanAmount, status |-> "PENDING" ] ],
       groupFunds |-> << NewGroupFund >> ]

\* existingCycle when the handler does not look.
existingCycle_NotLooked(cycleNumber) == FALSE

\* existingCycle: prisma.loanCycle.findUnique({ where: { cycleNumber } })
existingCycle(cycleNumber) ==
  \E i \in DOMAIN loanCycles : loanCycles[i].cycleNumber = cycleNumber

\* The unique index on LoanCycle.cycleNumber, which findUnique by cycleNumber
\* requires of the schema: a create with a number in use throws.
CycleNumberTaken(cycleNumber) ==
  \E i \in DOMAIN loanCycles : loanCycles[i].cycleNumber = cycleNumber

\* The error the handler answers before it creates anything.
CycleRejection(data, u) ==
  IF u = "anon" THEN "Unauthorized"
  ELSE IF UserRole(u) # "ADMIN" THEN "Forbidden - Admin access required"
  ELSE IF data.memberIds = << >> THEN "Invalid input"
  ELSE IF existingCycle(data.cycleNumber) THEN "Cycle number already exists"
  ELSE ""

\* POST create cycle up to its existence check.
CreateCycle(p) ==
  /\ FreeSlot(p)
  /\ started < MaxRequests
  /\ started' = started + 1
  /\ \E u \in Users, n \in CycleNumbers, ids \in MemberOrders, t \in TotalMembers :
       LET data == [ kind |-> "cycle", cycleNumber |-> n, totalMembers |-> t,
                     weeklyAmount |-> Rupees(100), memberIds |-> ids ]
       IN IF CycleRejection(data, u) # ""
          THEN /\ lastResponse' = CycleRejection(data, u)
               /\ UNCHANGED << pc, req >>
          ELSE /\ pc' = [pc EXCEPT ![p] = "createCycle"]
               /\ req' = [req EXCEPT ![p] = data]
               /\ UNCHANGED lastResponse
  /\ UNCHANGED << store, repaid, elsewhere >>

\* prisma.loanCycle.create with its nested sequences and fund: all of it or,
\* when it throws, none of it and the catch block's 500.
CycleCreate(p) ==
  /\ pc[p] = "createCycle"
  /\ IF CycleNumberTaken(req[p].cycleNumber)
     THEN /\ lastResponse' = "Failed to create cycle"
          /\ UNCHANGED loanCycles
     ELSE /\ lastResponse' = "created"
          /\ loanCycles' = Append(loanCycles, NewCycle(req[p]))
  /\ pc' = [pc EXCEPT ![p] = "idle"]
  /\ req' = [req EXCEPT ![p] = NoRequest]
  /\ UNCHANGED << store, repaid, started, groupMembers, weeklyCollections,
                  collectionPayments, paymentSchedule >>

\* The ledger at rest.
LedgerAtRest == InitLedger(FirstLoan, SecondLoan(3, TRUE), Contributed)

InitCycle == NothingElsewhere /\ LedgerAtRest

NextCycle ==
  \/ \E p \in Procs : CreateCycle(p)
  \/ \E p \in Procs : CycleCreate(p)

SpecCycle == InitCycle /\ [][NextCycle]_vars

\* ------------------------------------------------------------------ benefit estimate
\* POST calculate-benefit of src/app/api/loans/calculate-benefit/route.ts.

\* week of the body.
BenefitWeeks == {1, 2, 4}

JoiningWeeks == {1, 3}

WeeklyAmounts == {Rupees(10), Rupees(20)}

\* A GroupMember record as its create leaves it.
NewGroupMember(joiningWeek, weeklyAmount) ==
  [ isActive |-> TRUE, joiningWeek |-> joiningWeek, weeklyAmount |-> weeklyAmount,
    totalContributed |-> 0, benefitAmount |-> 0 ]

\* allGroupMembers: the active members of the group.
allGroupMembers == { m \in DOMAIN groupMembers : groupMembers[m].isActive }

\* weeksContributed that leaves out the joining week.
weeksContributed_AfterJoining(week, gm) == Max(0, week - gm.joiningWeek)

\* weeksContributed: from the joining week to the current week.
weeksContributed(week, gm) == Max(0, week - gm.joiningWeek + 1)

\* gm.weeklyAmount || 100
memberWeeklyAmount(gm) ==
  IF gm.weeklyAmount # 0 THEN gm.weeklyAmount ELSE Rupees(100)

memberTotalContributed(week, gm) ==
  weeksContributed(week, gm) * memberWeeklyAmount(gm)

\* totalContributions of calculate-benefit: over the active members.
benefitTotalContributions(week) ==
  SumOver([ m \in allGroupMembers |-> memberTotalContributed(week, groupMembers[m]) ],
          allGroupMembers)

\* The active members who have joined by the week.
activeMembersThisWeek(week) ==
  { m \in allGroupMembers : groupMembers[m].joiningWeek <= week }

poolAmount(week) ==
  SumOver([ m \in activeMembersThisWeek(week) |->
              memberWeeklyAmount(groupMembers[m]) ],
          activeMembersThisWeek(week))

\* benefitAmount, to the paisa below.
benefitAmount(week, gm) ==
  IF benefitTotalContributions(week) > 0
  THEN (memberTotalContributed(week, gm) * poolAmount(week))
         \div benefitTotalContributions(week)
  ELSE poolAmount(week) \div Max(Cardinality(activeMembersThisWeek(week)), 1)

\* The error calculate-benefit answers before it computes.
BenefitRejection(data, u) ==
  IF u = "anon" THEN "Unauthorized"
  ELSE IF data.memberId \notin DOMAIN groupMembers THEN "Member not found in group"
  ELSE ""

\* POST calculate-benefit up to the estimate: the member and the active
\* members as read.
CalculateBenefit(p) ==
  /\ FreeSlot(p)
  /\ started < MaxRequests
  /\ started' = started + 1
  /\ \E u \in Users, m \in Members, week \in BenefitWeeks :
       LET data == [ kind |-> "benefit", memberId |-> m, week |-> week ]
       IN IF BenefitRejection(data, u) # ""
          THEN /\ lastResponse' = BenefitRejection(data, u)
               /\ UNCHANGED << pc, req >>
          ELSE /\ pc' = [pc EXCEPT ![p] = "updateGroupMember"]
               /\ req' = [req EXCEPT ![p] =
                    [ kind |-> "benefit", memberId |-> m, week |-> week,
                      totalContributed |->
                        memberTotalContributed(week, groupMembers[m]),
                      benefitAmount |-> benefitAmount(week, groupMembers[m]) ]]
               /\ UNCHANGED lastResponse
  /\ UNCHANGED << store, repaid, elsewhere >>

\* prisma.groupMember.update of calculate-benefit and its 200.
BenefitUpdate(p) ==
  /\ pc[p] = "updateGroupMember"
  /\ groupMembers' = [groupMembers EXCEPT ![req[p].memberId] =
                        [ @ EXCEPT !.benefitAmount = req[p].benefitAmount,
                                   !.totalContributed = req[p].totalContributed ]]
  /\ lastResponse' = "ok"
  /\ pc' = [pc EXCEPT ![p] = "idle"]
  /\ req' = [req EXCEPT ![p] = NoRequest]
  /\ UNCHANGED << store, repaid, started, loanCycles, weeklyCollections,
                  collectionPayments, paymentSchedule >>

\* A group of members who joined in some week with some weekly amount, one
\* of them perhaps removed since, and M3 perhaps never added.
InitBenefit ==
  /\ LedgerAtRest
  /\ \E S \in { Members, Members \ {"M3"} } :
       \E joined \in [S -> JoiningWeeks], amount \in [S -> WeeklyAmounts],
          removed \in SUBSET {"M2"} :
         groupMembers =
           [ m \in S |-> [ NewGroupMember(joined[m], amount[m])
                            EXCEPT !.isActive = m \notin removed ] ]
  /\ loanCycles = << >>
  /\ weeklyCollections = << >>
  /\ collectionPayments = {}
  /\ paymentSchedule = << >>

NextBenefit ==
  \/ \E p \in Procs : CalculateBenefit(p)
  \/ \E p \in Procs : BenefitUpdate(p)

SpecBenefit == InitBenefit /\ [][NextBenefit]_vars

\* ------------------------------------------------------------------ payment schedule
\* generatePaymentSchedule of lib/utils and the loan page that shows it.

SchedulePrincipals == { Rupees(100), Rupees(250), Rupees(600), Rupees(1000), Rupees(1500) }

ScheduleWeeks == {1, 2, 3, 10}

\* The rows from one week on, remaining being the balance before it.
RECURSIVE ScheduleFrom(_, _, _, _)
ScheduleFrom(remaining, weeklyPrincipalPayment, week, weeks) ==
  IF week > weeks THEN << >>
  ELSE LET principalPayment == Min(weeklyPrincipalPayment, remaining)
           totalPayment == principalPayment
           newBalance == Max(0, remaining - principalPayment)
       IN << [ week |-> week, principalRemaining |-> remaining,
               principalPayment |-> principalPayment, interest |-> 0,
               totalPayment |-> Round2(totalPayment, 1),
               newBalance |-> Round2(newBalance, 1) ] >>
          \o ScheduleFrom(newBalance, weeklyPrincipalPayment, week + 1, weeks)

\* generatePaymentSchedule(principal, weeklyPrincipalPayment, interestRate, weeks)
generatePaymentSchedule(principal, weeklyPrincipalPayment, interestRate, weeks) ==
  ScheduleFrom(principal, weeklyPrincipalPayment, 1, weeks)

\* The weekly principal payment the loan page passes.
PageWeeklyPrincipalPayment == Rupees(100)

\* The loan page renders loan l: paymentSchedule of LoanDetailPage.
LoanPage(l) ==
  /\ paymentSchedule' =
       [ loanId |-> l,
         rows |-> generatePaymentSchedule(loans[l].principal,
                                          PageWeeklyPrincipalPayment,
                                          loans[l].interestRate, loans[l].weeks) ]
  /\ UNCHANGED << store, pc, req, lastResponse, started, repaid, loanCycles,
                  groupMembers, weeklyCollections, collectionPayments >>

\* Loans of some principal over some weeks.
InitSchedule ==
  /\ NothingElsewhere
  /\ \E p1, p2 \in SchedulePrincipals, w1, w2 \in ScheduleWeeks :
       InitLedger(NewLoan("M1", p1, w1, 2, TRUE, 0),
                  NewLoan("M2", p2, w2, 1, TRUE, 0), Contributed)

NextSchedule == \E l \in LoanIds : LoanPage(l)

SpecSchedule == InitSchedule /\ [][NextSchedule]_vars

\* ------------------------------------------------------------------ group members
\* POST of src/app/api/groups/[id]/members/route.ts: a member is added to the
\* group and pays for the weeks before the joining week.

\* joiningWeek of the body; the schema refuses 0.
BodyJoiningWeeks == {0, 1, 2, 3}

\* weeklyAmount of the body, 0 when it is left out.
BodyWeeklyAmounts == {0, Rupees(20)}

\* data.weeklyAmount || group.weeklyAmount || 100
joinWeeklyAmount(weeklyAmount) ==
  IF weeklyAmount # 0 THEN weeklyAmount
  ELSE IF group.weeklyAmount # 0 THEN group.weeklyAmount ELSE Rupees(100)

\* activeCycles: the group's cycles with isActive.
activeCycles ==
  { loanCycles[i].cycleNumber : i \in { j \in DOMAIN loanCycles : loanCycles[j].isActive } }

\* The weeks a member joining at joiningWeek pays for, in each cycle read.
BackdatedWeeks(cycles, joiningWeek) ==
  { << c, w >> : c \in cycles, w \in 1..(joiningWeek - 1) }

\* The order of the two loops: cycle by cycle, week by week.
NextBackdated(todo) ==
  CHOOSE x \in todo : \A y \in todo : x[1] < y[1] \/ (x[1] = y[1] /\ x[2] <= y[2])

\* existingPayment when the handler does not look.
existingPayment_NotLooked(cycle, week, member) == FALSE

\* existingPayment: collectionPayment.findUnique by collection and member.
existingPayment(cycle, week, member) ==
  \E pay \in collectionPayments :
    pay.cycle = cycle /\ pay.week = week /\ pay.memberId = member

\* The error the handler answers before it creates the group member.
JoinRejection(data, u) ==
  IF u = "anon" THEN "Unauthorized"
  ELSE IF UserRole(u) # "ADMIN" THEN "Forbidden - Admin access required"
  ELSE IF data.joiningWeek <= 0 THEN "Invalid input"
  ELSE IF data.memberId \in DOMAIN groupMembers
  THEN "Member is already in this group"
  ELSE ""

\* POST add member up to the read of the active cycles.
AddMember(p) ==
  /\ FreeSlot(p)
  /\ started < MaxRequests
  /\ started' = started + 1
  /\ \E u \in Users, m \in Members, j \in BodyJoiningWeeks, a \in BodyWeeklyAmounts :
       LET data == [ kind |-> "join", memberId |-> m, joiningWeek |-> j,
                     weeklyAmount |-> joinWeeklyAmount(a),
                     cycles |-> activeCycles,
                     todo |-> BackdatedWeeks(activeCycles, j), staged |-> {} ]
       IN IF JoinRejection(data, u) # ""
          THEN /\ lastResponse' = JoinRejection(data, u)
               /\ UNCHANGED << pc, req >>
          ELSE /\ pc' = [pc EXCEPT ![p] = "createGroupMember"]
               /\ req' = [req EXCEPT ![p] = data]
               /\ UNCHANGED lastResponse
  /\ UNCHANGED << store, repaid, elsewhere >>

\* prisma.groupMember.create, outside the transaction; the unique index on
\* group and member refuses a second record.
GroupMemberCreate(p) ==
  /\ pc[p] = "createGroupMember"
  /\ IF req[p].memberId \in DOMAIN groupMembers
     THEN /\ lastResponse' = "Failed to add member to group"
          /\ pc' = [pc EXCEPT ![p] = "idle"]
          /\ req' = [req EXCEPT ![p] = NoRequest]
          /\ UNCHANGED groupMembers
     ELSE /\ groupMembers' =
               [ m \in DOMAIN groupMembers \cup {req[p].memberId} |->
                   IF m = req[p].memberId
                   THEN NewGroupMember(req[p].joiningWeek, req[p].weeklyAmount)
                   ELSE groupMembers[m] ]
          /\ pc' = [pc EXCEPT ![p] = "backfill"]
          /\ UNCHANGED << req, lastResponse >>
  /\ UNCHANGED << store, repaid, started, loanCycles, weeklyCollections,
                  collectionPayments, paymentSchedule >>

\* One turn of the loops inside prisma.$transaction: the week's collection
\* is found or created and, when the member has no payment in it, the
\* payment, the totals and the savings are written.  Nothing the
\* transaction writes is seen outside before it commits.
BackfillWeek(p) ==
  /\ pc[p] = "backfill"
  /\ req[p].todo # {}
  /\ LET x == NextBackdated(req[p].todo)
     IN req' = [req EXCEPT ![p].todo = @ \ {x},
                            ![p].staged = @ \cup
                              { [ cycle |-> x[1], week |-> x[2],
                                  newCollection |-> x \notin DOMAIN weeklyCollections,
                                  pays |-> ~existingPayment(x[1], x[2],
                                                            req[p].memberId) ] }]
  /\ UNCHANGED << store, pc, lastResponse, started, repaid, elsewhere >>

\* The payments a transaction has written.
StagedPayments(r) ==
  { [ cycle |-> s.cycle, week |-> s.week, memberId |-> r.memberId,
      amount |-> r.weeklyAmount, status |-> "PAID" ] :
    s \in { t \in r.staged : t.pays } }

\* The SavingsTransaction records of k payments, from a running total.
RECURSIVE SavingsEntries(_, _, _, _)
SavingsEntries(member, total, amount, k) ==
  IF k = 0 THEN << >>
  ELSE << [ memberId |-> member, date |-> Today, amount |-> amount,
            total |-> total + amount ] >>
       \o SavingsEntries(member, total + amount, amount, k - 1)

\* The transaction commits, and the handler answers 201; or one of the
\* collections it created exists by now (the unique index on cycle and
\* week), the transaction is rolled back and the catch block answers 500.
BackfillCommit(p) ==
  /\ pc[p] = "backfill"
  /\ req[p].todo = {}
  /\ LET r == req[p]
         m == r.memberId
         created == StagedPayments(r)
         paid == Cardinality(created) * r.weeklyAmount
         touched == { << s.cycle, s.week >> : s \in r.staged }
         conflict == \E s \in r.staged :
                       s.newCollection /\ << s.cycle, s.week >> \in DOMAIN weeklyCollections
     IN IF conflict
        THEN /\ lastResponse' = "Failed to add member to group"
             /\ UNCHANGED << weeklyCollections, collectionPayments, groupMembers,
                             savings, savingsTransactions >>
        ELSE /\ lastResponse' = "created"
             /\ collectionPayments' = collectionPayments \cup created
             /\ weeklyCollections' =
                  [ x \in DOMAIN weeklyCollections \cup touched |->
                      LET old == IF x \in DOMAIN weeklyCollections
                                 THEN weeklyCollections[x]
                                 ELSE [ totalCollected |-> 0, activeMemberCount |-> 0 ]
                          n == Cardinality({ pay \in created :
                                               pay.cycle = x[1] /\ pay.week = x[2] })
                      IN [ totalCollected |-> old.totalCollected + n * r.weeklyAmount,
                           activeMemberCount |-> old.activeMemberCount + n ] ]
             /\ groupMembers' = [groupMembers EXCEPT ![m].totalContributed = @ + paid]
             /\ savings' = IF created = {} THEN savings
                           ELSE [savings EXCEPT ![m] =
                                  [ exists |-> TRUE, totalAmount |-> @.totalAmount + paid ]]
             /\ savingsTransactions' =
                  savingsTransactions
                    \o SavingsEntries(m, savings[m].totalAmount, r.weeklyAmount,
                                      Cardinality(created))
  /\ pc' = [pc EXCEPT ![p] = "idle"]
  /\ req' = [req EXCEPT ![p] = NoRequest]
  /\ UNCHANGED << loans, loanTransactions, groupFund, group, paidContributions,
                  interestDistributions, started, repaid, loanCycles,
                  paymentSchedule >>

\* A store call inside the transaction throws: it is rolled back and the
\* catch block answers 500.
BackfillThrows(p) ==
  /\ pc[p] = "backfill"
  /\ lastResponse' = "Failed to add member to group"
  /\ pc' = [pc EXCEPT ![p] = "idle"]
  /\ req' = [req EXCEPT ![p] = NoRequest]
  /\ UNCHANGED << store, started, repaid, elsewhere >>

\* M1 is in the group since week 1 and has paid week 1 of cycle 1; the
\* group has one or two cycles, the second one perhaps closed; M2 may have a
\* payment in week 1 from before.
InitMembers ==
  /\ LedgerAtRest
  /\ groupMembers = [ m \in {"M1"} |->
                        [ NewGroupMember(1, Rupees(10))
                          EXCEPT !.totalContributed = Rupees(10) ] ]
  /\ \E second \in {"none", "active", "closed"} :
       loanCycles =
         << [ cycleNumber |-> 1, isActive |-> TRUE ] >>
           \o (IF second = "none" THEN << >>
               ELSE << [ cycleNumber |-> 2, isActive |-> second = "active" ] >>)
  /\ \E before \in SUBSET {"M2"} :
       /\ collectionPayments =
            { [ cycle |-> 1, week |-> 1, memberId |-> m, amount |-> Rupees(10),
                status |-> "PAID" ] : m \in {"M1"} \cup before }
       /\ weeklyCollections =
            [ x \in { << 1, 1 >> } |->
                [ totalCollected |-> Rupees(10) * (1 + Cardinality(before)),
                  activeMemberCount |-> 1 + Cardinality(before) ] ]
  /\ paymentSchedule = << >>

NextMembers ==
  \/ \E p \in Procs : AddMember(p)
  \/ \E p \in Procs : GroupMemberCreate(p)
  \/ \E p \in Procs : BackfillWeek(p)
  \/ \E p \in Procs : BackfillCommit(p)
  \/ \E p \in Procs : BackfillThrows(p)

SpecMembers == InitMembers /\ [][NextMembers]_vars

\* ------------------------------------------------------------------ claims

AllIdle == \A p \in Procs : pc[p] = "idle"

\* A step that receives a request and rejects it.
RejectionStep == started' # started /\ pc' = pc /\ loans' = loans

RECURSIVE SumInterest(_)
SumInterest(log) ==
  IF log = << >> THEN 0 ELSE Head(log).interest + SumInterest(Tail(log))

\* C1: a repayment request that finds its loan COMPLETED is never accepted
\* by any of the four handlers, and a request that is rejected answers an
\* error and leaves every record of the store as it was.
C1_CompletedRepaymentRejected ==
  [][ /\ \A p \in Procs :
           (pc[p] = "idle" /\ pc'[p] # "idle")
             => loans[req'[p].loanId].status # "COMPLETED"
      /\ RejectionStep
           => /\ store' = store
              /\ lastResponse' \notin {"", "ok"}
              /\ \A l \in LoanIds :
                   (loans[l].status = "COMPLETED"
                    /\ lastResponse' = "Loan already completed")
                     => loans'[l] = loans[l] ]_vars

\* C1 witness: a request has been answered "Loan already completed".
C1_Witness ==
  /\ lastResponse = "Loan already completed"
  /\ \E l \in LoanIds : loans[l].status = "COMPLETED"

\* C2: when the only two requests of a run were repayments of the same loan
\* by one weekly principal each and both answered 200, the balance has
\* dropped by two weekly principals and the week and the principal paid
\* count both.
C2_NoLostRepayment ==
  \A l \in LoanIds :
    LET wp == loans[l].principal \div loans[l].weeks
    IN (/\ AllIdle
        /\ started = 2
        /\ repaid[l] = 2
        /\ Len(loanTransactions[l]) = 2
        /\ \A i \in 1..2 : loanTransactions[l][i].amount = wp)
         => /\ loans[l].remaining = Max(0, loans[l].principal - 2 * wp)
            /\ loans[l].totalPrincipalPaid = 2 * wp
            /\ loans[l].currentWeek >= 2

\* C3: with no request in flight, a loan whose balance or week a repayment
\* has changed has a transaction recorded for it.
C3_RepaymentAtomic ==
  AllIdle =>
    \A l \in LoanIds :
      loanTransactions[l] = << >>
        => /\ loans[l].remaining = loans[l].principal
           /\ loans[l].currentWeek = 0

\* C4: when the only two requests of a run were repayments of the two loans
\* of the cycle, both answered 200 and neither recorded a penalty, the
\* interest pool holds the interest of both.
C4_NoLostFundUpdate ==
  (/\ AllIdle
   /\ started = 2
   /\ \A l \in LoanIds :
        /\ loans[l].inCycle
        /\ repaid[l] = 1
        /\ Len(loanTransactions[l]) = 1
        /\ loanTransactions[l][1].penalty = 0)
    => groupFund.interestPool =
         SumInterest(loanTransactions["L1"]) + SumInterest(loanTransactions["L2"])

\* C5: the remaining balance of a loan is never negative.
C5_RemainingNonNegative == \A l \in LoanIds : loans[l].remaining >= 0

\* C6: a COMPLETED loan has remaining = 0, and a repayment writes COMPLETED
\* exactly when the balance it computed is <= 0.
C6_CompletedHasZeroRemaining ==
  /\ \A l \in LoanIds : loans[l].status = "COMPLETED" => loans[l].remaining = 0
  /\ \A p \in Procs :
       pc[p] # "idle"
         => (newStatus(req[p]) = "COMPLETED" <=> newRemaining(req[p]) <= 0)

\* C7: no step decreases a loan's currentWeek.
C7_CurrentWeekMonotonic ==
  [][ \A l \in LoanIds : loans'[l].currentWeek >= loans[l].currentWeek ]_vars

\* C8: a loan whose status is COMPLETED or DEFAULTED is not changed by any
\* step.
C8_TerminalLoansUntouched ==
  [][ \A l \in LoanIds :
        loans[l].status \in {"COMPLETED", "DEFAULTED"} => loans'[l] = loans[l] ]_vars

\* C9: totalFunds = investmentPool + interestPool - emergencyReserve
\* - insuranceFund - adminFee in every state of the group fund.
C9_FundInvariant ==
  groupFund.totalFunds =
    groupFund.investmentPool + groupFund.interestPool
    - groupFund.emergencyReserve - groupFund.insuranceFund - groupFund.adminFee

\* C10: a loan's transactions only grow, by one record at a time, added by a
\* request at its loanTransaction.create that has added none before; a
\* request that answers 200 has added exactly one, and a rejected request
\* adds none.
C10_TransactionsAppendOnly ==
  [][ /\ \A l \in LoanIds :
           \/ loanTransactions'[l] = loanTransactions[l]
           \/ /\ Len(loanTransactions'[l]) = Len(loanTransactions[l]) + 1
              /\ SubSeq(loanTransactions'[l], 1, Len(loanTransactions[l]))
                   = loanTransactions[l]
              /\ \E p \in Procs :
                   /\ pc[p] = "createTransaction"
                   /\ req[p].loanId = l
                   /\ req[p].created = 0
                   /\ pc'[p] # "createTransaction"
      /\ \A p \in Procs :
           (pc[p] # "idle" /\ pc'[p] = "idle" /\ repaid' # repaid)
             => req[p].created
                + Len(loanTransactions'[req[p].loanId])
                - Len(loanTransactions[req[p].loanId]) = 1
      /\ RejectionStep => loanTransactions' = loanTransactions ]_vars

\* C10 witness: two repayments of one loan answered 200 and the loan has two
\* transactions.
C10_Witness ==
  \E l \in LoanIds : repaid[l] = 2 /\ Len(loanTransactions[l]) = 2

\* C11: in every state, a repayment request of any variant for any loan from
\* a caller who has no session, or who is neither ADMIN nor the user linked
\* to the loan's member, is rejected (and so writes nothing).
C11_StrangersChangeNothing ==
  \A u \in Users, k \in Kinds, l \in LoanIds, d \in Days :
    (u = "anon" \/ (UserRole(u) # "ADMIN" /\ UserMember(u) # loans[l].memberId))
      => Rejection([ NoRequest EXCEPT !.kind = k, !.loanId = l,
                       !.paymentDate = d ], u) # ""

\* The request in slot p takes the step.
Steps(p) == pc'[p] # pc[p] \/ req'[p] # req[p]

\* The active members of the group.
ActiveMembers == { m \in Members : group.members[m].isActive }

C13_PrincipalToPoolThenSavings ==
  [][ \A p \in Procs :
        LET r == req[p]
            n == Len(savingsTransactions)
        IN (r.kind = "nointerest" /\ Steps(p)) =>
             /\ (pc[p] = "updateGroupFund" /\ groupFund' # groupFund) =>
                  IF Completes(r)
                  THEN groupFund'.investmentPool = 0 /\ groupFund'.totalFunds = 0
                  ELSE /\ groupFund'.investmentPool =
                            groupFund.investmentPool + paymentPrincipal(r)
                       /\ groupFund'.totalFunds =
                            groupFund.totalFunds + paymentPrincipal(r)
             /\ (pc[p] = "createTransaction" /\ Completes(r)
                   /\ loanTransactions' # loanTransactions) =>
                  /\ pc'[p] = "distribute"
                  /\ SumOver([ m \in req'[p].todo |-> savingsAmount(req'[p], m) ],
                             req'[p].todo) = loans[r.loanId].totalPrincipalPaid
                  /\ \A m \in req'[p].todo :
                       savingsAmount(req'[p], m) * req'[p].totalContributed
                         = loans[r.loanId].totalPrincipalPaid * paidContributions[m]
             /\ (pc[p] = "distribute" /\ savingsTransactions' # savingsTransactions) =>
                  /\ Len(savingsTransactions') = n + 1
                  /\ SubSeq(savingsTransactions', 1, n) = savingsTransactions
                  /\ LET rec == savingsTransactions'[n + 1]
                     IN /\ rec.amount = savingsAmount(r, rec.memberId)
                        /\ savings'[rec.memberId].totalAmount
                             = savings[rec.memberId].totalAmount + rec.amount
                        /\ \A m \in Members \ {rec.memberId} :
                             savings'[m] = savings[m] ]_vars

\* The transactions of loan l show a repayment in each week so far, none
\* missed.
OnTime(l) ==
  \A k \in 1..Len(loanTransactions[l]) : loanTransactions[l][k].week = k

\* C14: a no-interest loan of P over W weeks is retired by exactly W
\* repayments of P/W: ACTIVE after fewer, COMPLETED with remaining 0 after the
\* W-th; every repayment records no interest and no penalty and advances
\* currentWeek by one, however late it is.
C14_RetiredInExactlyWeeks ==
  AllIdle =>
    \A l \in LoanIds :
      LET log == loanTransactions[l]
          loan == loans[l]
      IN /\ Len(log) <= loan.weeks
         /\ loan.currentWeek = Len(log)
         /\ loan.status = IF Len(log) < loan.weeks THEN "ACTIVE" ELSE "COMPLETED"
         /\ Len(log) = loan.weeks => loan.remaining = 0
         /\ loan.totalInterest = 0 /\ loan.latePaymentPenalty = 0
         /\ \A k \in 1..Len(log) :
              /\ log[k].amount = loan.principal \div loan.weeks
              /\ log[k].interest = 0 /\ log[k].penalty = 0
              /\ log[k].week = k

\* C15: an interest-bearing loan of P over W weeks at rate r, repaid on time
\* every week, pays P/W and remaining * r / 100 on the balance before the
\* payment each week and is ACTIVE until the W-th repayment, which leaves it
\* COMPLETED with remaining 0; 1000.00 over 10 weeks at 1 % pays interest of
\* 10.00, 9.00, ..., 1.00, 55.00 in all, the first payment being 110.00 with
\* a new balance of 900.00.
C15_DecliningBalanceOnTime ==
  AllIdle =>
    \A l \in LoanIds :
      LET log == loanTransactions[l]
          loan == loans[l]
          before(k) == IF k = 1 THEN loan.principal ELSE log[k - 1].remaining
      IN OnTime(l) =>
           /\ Len(log) <= loan.weeks
           /\ loan.status = IF Len(log) < loan.weeks THEN "ACTIVE" ELSE "COMPLETED"
           /\ Len(log) = loan.weeks => loan.remaining = 0
           /\ \A k \in 1..Len(log) :
                /\ log[k].amount = loan.principal \div loan.weeks
                /\ log[k].interest = (before(k) * loan.interestRate) \div 100
                /\ log[k].remaining = before(k) - log[k].amount
           /\ (loan.principal = Rupees(1000) /\ loan.weeks = 10
                 /\ loan.interestRate = 1) =>
                /\ \A k \in 1..Len(log) : log[k].interest = Rupees(11 - k)
                /\ Len(log) >= 1 =>
                     /\ log[1].amount + log[1].interest = Rupees(110)
                     /\ log[1].remaining = Rupees(900)
                /\ Len(log) = 10 => loan.totalInterest = Rupees(55)

ZeroFund(fund) ==
  /\ fund.investmentPool = 0 /\ fund.interestPool = 0
  /\ fund.emergencyReserve = 0 /\ fund.insuranceFund = 0
  /\ fund.adminFee = 0 /\ fund.totalFunds = 0

\* C16: a created cycle has one sequence per entry of memberIds, in their
\* order, the entry at index i with week i + 1 (so the weeks are 1, 2, ...
\* without gap or repeat), each with loanAmount totalMembers x weeklyAmount
\* and status PENDING, and exactly one GroupFund whose six pools are 0.
C16_SequencesFollowMemberOrder ==
  [][ loanCycles' # loanCycles =>
        \E p \in Procs :
          /\ pc[p] = "createCycle" /\ pc'[p] = "idle"
          /\ Len(loanCycles') = Len(loanCycles) + 1
          /\ SubSeq(loanCycles', 1, Len(loanCycles)) = loanCycles
          /\ LET data == req[p]
                 cycle == loanCycles'[Len(loanCycles')]
             IN /\ cycle.cycleNumber = data.cycleNumber
                /\ Len(cycle.sequences) = Len(data.memberIds)
                /\ \A i \in 1..Len(data.memberIds) :
                     /\ cycle.sequences[i].memberId = data.memberIds[i]
                     /\ cycle.sequences[i].week = i
                     /\ cycle.sequences[i].loanAmount
                          = data.totalMembers * data.weeklyAmount
                     /\ cycle.sequences[i].status = "PENDING"
                /\ { cycle.sequences[i].week : i \in DOMAIN cycle.sequences }
                     = 1..Len(cycle.sequences)
                /\ Len(cycle.groupFunds) = 1
                /\ ZeroFund(cycle.groupFunds[1]) ]_vars

\* A cycle of three sequences in the order M2, M3, M1.
C16_Witness ==
  \E i \in DOMAIN loanCycles :
    /\ Len(loanCycles[i].sequences) = 3
    /\ loanCycles[i].sequences[1].memberId = "M2"
    /\ loanCycles[i].sequences[3].memberId = "M1"
    /\ loanCycles[i].sequences[3].week = 3
    /\ loanCycles[i].sequences[3].loanAmount = Rupees(1000)

\* C17: no two cycles ever share a cycleNumber, whatever the order of the
\* create-cycle requests: a request for a number that exists is refused with
\* "Cycle number already exists", a create that finds the number taken
\* since creates nothing, and what a create adds is one cycle of a new number.
C17_CycleNumbersUnique ==
  [][ /\ \A i, j \in DOMAIN loanCycles' :
           loanCycles'[i].cycleNumber = loanCycles'[j].cycleNumber => i = j
      /\ \A n \in CycleNumbers, ids \in MemberOrders \ {<< >>} :
           (\E i \in DOMAIN loanCycles : loanCycles[i].cycleNumber = n)
             => CycleRejection([ cycleNumber |-> n, memberIds |-> ids ], "admin")
                  = "Cycle number already exists"
      /\ \A p \in Procs :
           (/\ pc[p] = "createCycle" /\ pc'[p] = "idle"
            /\ \E i \in DOMAIN loanCycles :
                 loanCycles[i].cycleNumber = req[p].cycleNumber)
             => loanCycles' = loanCycles /\ lastResponse' = "Failed to create cycle"
      /\ loanCycles' # loanCycles =>
           /\ Len(loanCycles') = Len(loanCycles) + 1
           /\ SubSeq(loanCycles', 1, Len(loanCycles)) = loanCycles ]_vars

\* Two requests for the same number went past the check together: one
\* created the cycle, the other failed.
C17_Witness ==
  /\ AllIdle
  /\ started = 2
  /\ Len(loanCycles) = 1
  /\ lastResponse = "Failed to create cycle"

\* C19: the estimate calculate-benefit stores for a member at week w is
\* memberContribution / totalContributions x pool (to the paisa), where a
\* contribution is max(0, w - joiningWeek + 1) x weeklyAmount,
\* totalContributions sums it over the active members and pool sums the
\* weekly amounts of the active members with joiningWeek <= w; the
\* estimates of the active members sum to the pool (less than a paisa lost
\* per member); with totalContributions 0 the estimate is pool over the
\* number of those members, 0 when there is none, and the request is
\* answered 200.
C19_BenefitEstimate ==
  [][ groupMembers' # groupMembers =>
        \E p \in Procs :
          /\ pc[p] = "updateGroupMember" /\ pc'[p] = "idle"
          /\ lastResponse' = "ok"
          /\ LET w == req[p].week
                 member == req[p].memberId
                 active == { m \in DOMAIN groupMembers : groupMembers[m].isActive }
                 joined == { m \in active : groupMembers[m].joiningWeek <= w }
                 contribution ==
                   [ m \in DOMAIN groupMembers |->
                       Max(0, w - groupMembers[m].joiningWeek + 1)
                         * groupMembers[m].weeklyAmount ]
                 total == SumOver(contribution, active)
                 pool == SumOver([ m \in joined |-> groupMembers[m].weeklyAmount ],
                                 joined)
                 estimate == groupMembers'[member].benefitAmount
                 estimates == [ m \in active |-> benefitAmount(w, groupMembers[m]) ]
             IN /\ total > 0 =>
                     /\ estimate = (contribution[member] * pool) \div total
                     /\ SumOver(estimates, active) <= pool
                     /\ SumOver(estimates, active) > pool - Cardinality(active)
                     /\ member \in active => estimates[member] = estimate
                /\ total = 0 =>
                     /\ estimate = IF joined = {} THEN 0
                                   ELSE pool \div Cardinality(joined)
                     /\ SumOver(estimates, active) = pool
                /\ groupMembers'[member].totalContributed = contribution[member]
                /\ \A m \in DOMAIN groupMembers \ {member} :
                     groupMembers'[m] = groupMembers[m] ]_vars

\* M1 and M2 joined in week 1 with 10.00 and 20.00 a week: at week 2 the
\* pool of 30.00 is estimated as 10.00 and 20.00.
C19_Witness ==
  /\ AllIdle
  /\ DOMAIN groupMembers = {"M1", "M2"}
  /\ groupMembers["M1"].isActive /\ groupMembers["M2"].isActive
  /\ groupMembers["M1"].totalContributed = Rupees(20)
  /\ groupMembers["M2"].totalContributed = Rupees(40)
  /\ groupMembers["M1"].benefitAmount = Rupees(10)
  /\ groupMembers["M2"].benefitAmount = Rupees(20)

\* C20: the schedule shown for a loan has exactly `weeks` rows; each row's
\* principalPayment is the smaller of weeklyPrincipalPayment and the balance
\* before the row, which is the principal for the first row and the new
\* balance of the row before for the others; the principalPayments sum to
\* the principal and the last row's newBalance is 0.
C20_ScheduleRetiresPrincipal ==
  paymentSchedule # << >> =>
    LET rows == paymentSchedule.rows
        loan == loans[paymentSchedule.loanId]
    IN /\ Len(rows) = loan.weeks
       /\ \A k \in 1..Len(rows) :
            /\ rows[k].week = k
            /\ rows[k].principalRemaining =
                 IF k = 1 THEN loan.principal ELSE rows[k - 1].newBalance
            /\ rows[k].principalPayment =
                 Min(PageWeeklyPrincipalPayment, rows[k].principalRemaining)
            /\ rows[k].newBalance =
                 rows[k].principalRemaining - rows[k].principalPayment
       /\ SumOver([ k \in 1..Len(rows) |-> rows[k].principalPayment ],
                  1..Len(rows)) = loan.principal
       /\ rows[Len(rows)].newBalance = 0

\* The payments of a member in a week of a cycle.
PaymentsOf(payments, cycle, week, member) ==
  { pay \in payments :
      pay.cycle = cycle /\ pay.week = week /\ pay.memberId = member }

\* C18: the backfill of a member joining at week J is all or nothing.  When
\* the join is answered 201, the member has exactly one PAID payment in
\* every week 1..J-1 of every active cycle, every collection's
\* totalCollected and activeMemberCount have grown by the amount and the
\* number of the payments created in it, and the member's totalContributed
\* and savings total have grown by the sum of the created payments, one
\* SavingsTransaction each; when the backfill fails, and until it commits,
\* no payment, collection, total or savings has changed.
C18_BackfillAllOrNothing ==
  [][ /\ \A p \in Procs :
           (pc[p] = "backfill" /\ pc'[p] = "idle") =>
             LET r == req[p]
                 m == r.memberId
                 created == collectionPayments' \ collectionPayments
                 sum == SumOver([ pay \in created |-> pay.amount ], created)
             IN IF lastResponse' = "created"
                THEN /\ \A c \in r.cycles, w \in 1..(r.joiningWeek - 1) :
                          /\ Cardinality(PaymentsOf(collectionPayments', c, w, m)) = 1
                          /\ \A pay \in PaymentsOf(collectionPayments', c, w, m) :
                               pay.status = "PAID"
                     /\ collectionPayments \subseteq collectionPayments'
                     /\ \A pay \in created : pay.memberId = m /\ pay.status = "PAID"
                     /\ \A x \in DOMAIN weeklyCollections' :
                          LET here == { pay \in created : << pay.cycle, pay.week >> = x }
                              old == IF x \in DOMAIN weeklyCollections
                                     THEN weeklyCollections[x]
                                     ELSE [ totalCollected |-> 0, activeMemberCount |-> 0 ]
                          IN /\ weeklyCollections'[x].totalCollected
                                  = old.totalCollected
                                    + SumOver([ pay \in here |-> pay.amount ], here)
                             /\ weeklyCollections'[x].activeMemberCount
                                  = old.activeMemberCount + Cardinality(here)
                     /\ groupMembers'[m].totalContributed
                          = groupMembers[m].totalContributed + sum
                     /\ savings'[m].totalAmount = savings[m].totalAmount + sum
                     /\ Len(savingsTransactions')
                          = Len(savingsTransactions) + Cardinality(created)
                ELSE UNCHANGED << collectionPayments, weeklyCollections, groupMembers,
                                  savings, savingsTransactions >>
      /\ ((\A q \in Procs : ~(pc[q] = "backfill" /\ pc'[q] = "idle"))
           => UNCHANGED << collectionPayments, weeklyCollections, savings,
                           savingsTransactions >>) ]_vars

\* M2 has joined at week 3 of a group with two active cycles: four
\* backdated payments of 20.00, or three when one was there before.
C18_Witness ==
  /\ AllIdle
  /\ lastResponse = "created"
  /\ "M2" \in DOMAIN groupMembers
  /\ groupMembers["M2"].joiningWeek = 3
  /\ activeCycles = {1, 2}
  /\ groupMembers["M2"].totalContributed >= Rupees(60)
  /\ savings["M2"].totalAmount = groupMembers["M2"].totalContributed
  /\ \A c \in {1, 2}, w \in {1, 2} :
       Cardinality(PaymentsOf(collectionPayments, c, w, "M2")) = 1

\* C21: under the DECLINING policy each row's interest of the schedule shown
\* is the balance before the row times the loan's weekly rate, the row's
\* totalPayment is its principalPayment plus that interest, and no row's
\* interest exceeds the interest of the row before.
C21_DecliningInterestRows ==
  paymentSchedule # << >> =>
    LET rows == paymentSchedule.rows
        loan == loans[paymentSchedule.loanId]
    IN \A k \in 1..Len(rows) :
         /\ rows[k].interest =
              (rows[k].principalRemaining * loan.interestRate) \div 100
         /\ rows[k].totalPayment = rows[k].principalPayment + rows[k].interest
         /\ k > 1 => rows[k].interest <= rows[k - 1].interest

\* C22: in the interest-bearing repayment, with the loan as the handler read
\* it, expectedWeek = floor((paymentDate - disbursedDate) / 7 days) + 1 and
\* missedWeeks = max(0, expectedWeek - currentWeek - 1); loan.update stores
\* currentWeek + 1 + missedWeeks as currentWeek and the transaction created
\* carries the same week, while the balance stored and recorded is the
\* balance read less one weekly principal, however many weeks were missed.
C22_WeekJumpsBalanceStepsOnce ==
  [][ \A p \in Procs :
        req[p].kind = "interest" =>
          LET r == req[p]
              l == r.loanId
              disbursed == IF r.loan.disbursedAt # NoDate
                           THEN r.loan.disbursedAt ELSE Today
              expected == ((r.paymentDate - disbursed) \div 7) + 1
              missed == Max(0, expected - r.loan.currentWeek - 1)
              balance == r.loan.remaining - r.loan.principal \div r.loan.weeks
          IN /\ (pc[p] = "updateLoan" /\ pc'[p] = "createTransaction")
                  => /\ loans'[l].currentWeek = r.loan.currentWeek + 1 + missed
                     /\ loans'[l].remaining = balance
             /\ (pc[p] = "createTransaction" /\ pc'[p] # "createTransaction"
                 /\ loanTransactions'[l] # loanTransactions[l])
                  => LET t == loanTransactions'[l][Len(loanTransactions'[l])]
                     IN /\ t.week = r.loan.currentWeek + 1 + missed
                        /\ t.remaining = balance ]_vars

\* C22 witness: a first repayment paid 15 days after disbursal, two weeks
\* missed: the loan is in week 3 with one weekly principal paid, and so says
\* its transaction.
C22_Witness ==
  /\ AllIdle
  /\ loans["L2"].currentWeek = 3
  /\ loans["L2"].remaining = Rupees(200)
  /\ Len(loanTransactions["L2"]) = 1
  /\ loanTransactions["L2"][1].week = 3
  /\ loanTransactions["L2"][1].remaining = Rupees(200)

\* C23: an interest-bearing repayment of a loan read with remaining R and
\* weekly rate r % that finds k missed weeks accrues k x (R x r / 100) of
\* interest and k x (R x 0.5 / 100) of penalty, both on the balance R as
\* read; the interest recorded on the transaction and added to the loan's
\* totalInterest is the current week's R x r / 100 plus the accrued interest,
\* and, the body carrying no overdueWeeks override, the penalty recorded on
\* the transaction and added to the loan's latePaymentPenalty is the accrued
\* penalty.
C23_MissedWeeksAccrueOnReadBalance ==
  [][ \A p \in Procs :
        req[p].kind = "interest" =>
          LET r == req[p]
              l == r.loanId
              R == r.loan.remaining
              k == Max(0, ((r.paymentDate - r.loan.disbursedAt) \div 7) + 1
                          - r.loan.currentWeek - 1)
              accruedInterest == k * ((R * r.loan.interestRate) \div 100)
              accruedPenalty == k * ((R * 5) \div 1000)
              interest == (R * r.loan.interestRate) \div 100 + accruedInterest
              override == r.isLate /\ r.overdueWeeks > 0 /\ r.overdueWeeks # k
          IN /\ (pc[p] = "updateLoan" /\ pc'[p] = "createTransaction")
                  => /\ loans'[l].totalInterest = r.loan.totalInterest + interest
                     /\ ~override =>
                          loans'[l].latePaymentPenalty =
                            r.loan.latePaymentPenalty + accruedPenalty
             /\ (pc[p] = "createTransaction" /\ pc'[p] # "createTransaction"
                 /\ loanTransactions'[l] # loanTransactions[l])
                  => LET t == loanTransactions'[l][Len(loanTransactions'[l])]
                     IN /\ t.interest = interest
                        /\ ~override => t.penalty = accruedPenalty ]_vars

\* C23 witness: the loan of 500.00 at 1 % repaid first two weeks late:
\* interest 5.00 for the week and 10.00 accrued, penalty 5.00, week 3.
C23_Witness ==
  /\ Len(loanTransactions["L2"]) = 1
  /\ loanTransactions["L2"][1].interest = Rupees(5) + Rupees(10)
  /\ loanTransactions["L2"][1].penalty = Rupees(5)
  /\ loanTransactions["L2"][1].week = 3
  /\ loans["L2"].totalInterest = Rupees(15)
  /\ loans["L2"].latePaymentPenalty = Rupees(5)

\* The weeks the interest-bearing handler finds missed for request r.
MissedFor(r) ==
  Max(0, ((r.paymentDate - r.loan.disbursedAt) \div 7) + 1 - r.loan.currentWeek - 1)

\* Every write of an interest-bearing repayment records the penalty that
\* Penalty gives for the request: added to the latePaymentPenalty read by
\* loan.update, as the transaction's penalty, and added with the payment's
\* interest to the interestPool read by groupFund.update.
PenaltyRecorded(Penalty(_)) ==
  \A p \in Procs :
    req[p].kind = "interest" =>
      LET r == req[p]
          l == r.loanId
          R == r.loan.remaining
          interest == (1 + MissedFor(r)) * ((R * r.loan.interestRate) \div 100)
      IN /\ (pc[p] = "updateLoan" /\ pc'[p] = "createTransaction")
              => loans'[l].latePaymentPenalty =
                   r.loan.latePaymentPenalty + Penalty(r)
         /\ (pc[p] = "createTransaction" /\ pc'[p] # "createTransaction"
             /\ loanTransactions'[l] # loanTransactions[l])
              => loanTransactions'[l][Len(loanTransactions'[l])].penalty
                   = Penalty(r)
         /\ (pc[p] = "updateGroupFund" /\ pc'[p] # "updateGroupFund"
             /\ groupFund' # groupFund)
              => groupFund'.interestPool =
                   r.groupFund.interestPool + interest + Penalty(r)

\* remaining x 0.5 x overdueWeeks / 100 when an overdueWeeks > 0 other than
\* the missed weeks is supplied, else the simulated k x (remaining x 0.5 / 100).
PenaltyOfOverdueWeeks(r) ==
  IF r.overdueWeeks > 0 /\ r.overdueWeeks # MissedFor(r)
  THEN (r.loan.remaining * 5 * r.overdueWeeks) \div 1000
  ELSE MissedFor(r) * ((r.loan.remaining * 5) \div 1000)

\* The same, the override counting only in a body flagged isLate.
PenaltyOfFlaggedOverdueWeeks(r) ==
  IF r.isLate /\ r.overdueWeeks > 0 /\ r.overdueWeeks # MissedFor(r)
  THEN (r.loan.remaining * 5 * r.overdueWeeks) \div 1000
  ELSE MissedFor(r) * ((r.loan.remaining * 5) \div 1000)

\* C24 as stated: whenever the body carries an overdueWeeks > 0 that differs
\* from the computed missedWeeks, the late penalty recorded on the loan, on
\* the transaction and in the fund is remaining x 0.5 x overdueWeeks / 100
\* in place of the simulated penalty; in every other case it is the
\* simulated accumulatedPenalty.
C24_OverrideReplacesPenalty == [][PenaltyRecorded(PenaltyOfOverdueWeeks)]_vars

\* C24 amended: the override counts only when the body also has isLate true;
\* a body with overdueWeeks > 0 and isLate false records the simulated
\* accumulatedPenalty.
C24_FlaggedOverrideReplacesPenalty ==
  [][PenaltyRecorded(PenaltyOfFlaggedOverdueWeeks)]_vars

\* C24 witness: the loan of 600.00 repaid on time and then, with one week
\* missed, by a body flagged late with overdueWeeks 2: the second
\* transaction's penalty is 300.00 x 0.5 x 2 / 100 = 3.00, not 1.50 and not
\* 4.50.
C24_Witness ==
  /\ Len(loanTransactions["L1"]) = 2
  /\ loanTransactions["L1"][1].week = 1
  /\ loanTransactions["L1"][2].week = 3
  /\ loanTransactions["L1"][2].penalty = Rupees(3)
  /\ loans["L1"].latePaymentPenalty = Rupees(3)

\* C25: principal is conserved on every loan: in every state
\* remaining + totalPrincipalPaid = principal, so totalPrincipalPaid never
\* exceeds the principal.
C25_PrincipalConserved ==
  \A l \in LoanIds :
    /\ loans[l].remaining + loans[l].totalPrincipalPaid = loans[l].principal
    /\ loans[l].totalPrincipalPaid <= loans[l].principal

\* The sum of one field over a loan's transactions.
RECURSIVE SumField(_, _)
SumField(log, field) ==
  IF log = << >> THEN 0 ELSE Head(log)[field] + SumField(Tail(log), field)

\* C26: whenever no repayment is in progress, each loan's cached totals agree
\* with its transactions: totalPrincipalPaid is the sum of their amounts,
\* totalInterest the sum of their interest, the loan's cumulative penalty the
\* sum of their penalties, remaining the remaining of the transaction written
\* last, and no two of them carry the same week.
C26_TotalsAgreeWithLog ==
  AllIdle =>
    \A l \in LoanIds :
      LET log == loanTransactions[l]
      IN /\ loans[l].totalPrincipalPaid = SumField(log, "amount")
         /\ loans[l].totalInterest = SumField(log, "interest")
         /\ loans[l].latePaymentPenalty + loans[l].totalPenalty
              = SumField(log, "penalty")
         /\ log # << >> => loans[l].remaining = log[Len(log)].remaining
         /\ \A i, j \in 1..Len(log) : i # j => log[i].week # log[j].week

\* The loans with a transaction that left nothing remaining: a payout of a
\* loan follows such a transaction of the same request.
LoansPaidOff ==
  { l \in LoanIds :
      \E i \in 1..Len(loanTransactions[l]) : loanTransactions[l][i].remaining <= 0 }

\* C27: completion payouts happen at most once per loan: there is at most one
\* InterestDistribution per loan and group member and, in the no-interest
\* variant, at most one savings payout to a member per loan paid off, also
\* when two repayments that each complete the loan run together.
C27_PayoutAtMostOnce ==
  /\ \A l \in LoanIds, m \in Members :
       Cardinality({ i \in 1..Len(interestDistributions) :
                       /\ interestDistributions[i].loanId = l
                       /\ interestDistributions[i].groupMemberId = m }) <= 1
  /\ \A m \in Members :
       Cardinality({ i \in 1..Len(savingsTransactions) :
                       savingsTransactions[i].memberId = m })
         <= Cardinality(LoansPaidOff)

\* The sum of a member's CollectionPayments with status PAID.
PaidBy(payments, member) ==
  LET paid == { pay \in payments : pay.memberId = member /\ pay.status = "PAID" }
  IN SumOver([ pay \in paid |-> pay.amount ], paid)

\* C28: a GroupMember's totalContributed never decreases and is always the
\* sum of the member's PAID contributions; the groupMember.update of
\* calculate-benefit leaves totalContributed as it was and changes nothing
\* but the benefitAmount of the member it was asked about.
C28_TotalContributedCumulative ==
  [][ \A m \in DOMAIN groupMembers :
        /\ groupMembers'[m].totalContributed >= groupMembers[m].totalContributed
        /\ groupMembers'[m].totalContributed = PaidBy(collectionPayments', m)
        /\ \A p \in Procs :
             (pc[p] = "updateGroupMember" /\ pc'[p] = "idle")
               => /\ groupMembers'[m].totalContributed
                       = groupMembers[m].totalContributed
                  /\ groupMembers'[m] =
                       IF m = req[p].memberId
                       THEN [ groupMembers[m] EXCEPT
                                !.benefitAmount = groupMembers'[m].benefitAmount ]
                       ELSE groupMembers[m] ]_vars

\* The loans of the cycle that have been repaid at all.
LoansRepaid == { l \in LoanIds : loans[l].inCycle /\ loanTransactions[l] # << >> }

\* C29: the principal that ROSCA repayments, weekly ones and then one in
\* full, credit to the cycle's investmentPool never exceeds the principal of
\* the loans repaid, and once a repayment is answered the investmentPool and
\* the interestPool hold what the loans' transactions record as amount and
\* as interest.
C29_PoolCreditWithinPrincipal ==
  /\ groupFund.investmentPool
       <= SumOver([ l \in LoansRepaid |-> loans[l].principal ], LoansRepaid)
  /\ AllIdle =>
       /\ groupFund.investmentPool =
            SumOver([ l \in LoansRepaid |-> SumField(loanTransactions[l], "amount") ],
                    LoansRepaid)
       /\ groupFund.interestPool =
            SumOver([ l \in LoansRepaid |-> SumField(loanTransactions[l], "interest") ],
                    LoansRepaid)

\* C30: adding a group member is all-or-nothing as a whole: when the
\* backfill of an add request fails after it has written backdated weeks
\* inside its transaction and the request is answered 500, the
\* group has no GroupMember record of that member, so that the same request
\* sent again is not refused as already in the group.
C30_FailedJoinLeavesNoMember ==
  [][ \A p \in Procs :
        (/\ pc[p] = "backfill"
         /\ req[p].staged # {}
         /\ pc'[p] = "idle"
         /\ lastResponse' = "Failed to add member to group")
          => req[p].memberId \notin DOMAIN groupMembers' ]_vars

====
